---- MODULE Spec2Model ----
(***************************************************************************)
(* Model of ShimmerGSRPlus (sensing/device/gsrplus.py): a session wrapper  *)
(* around the Shimmer3 driver with connect(), disconnect() and the         *)
(* stream() generator.  The driver itself (sensing/device/shimmer.py) is   *)
(* not part of the sources; its state changes follow the specification.    *)
(***************************************************************************)
EXTENDS Integers, Sequences, FiniteSets, TLC

\* ---- bounds ----
MaxBatches == 2      \* batches the driver delivers to the live generators
MaxPkts == 2         \* packets in one batch

\* ---- driver states (su.BT_CONNECTED and its siblings) ----
BT_CONNECTED == "Connected"
BT_IDLE == "Disconnected"
BT_STREAMING == "Streaming"
States == {BT_IDLE, BT_CONNECTED, BT_STREAMING}

\* device paths a caller or the port listing can name
PathSet == {"/dev/ttyUSB0", "/dev/rfcomm0"}

\* packets as the driver delivers them: fields 2, 3, 4 (0-based) are
\* timestamp, PPG, EDA
PacketSet == { <<0, 9, 100, 5, 12>>, <<1, 8, 101, 6, 13>> }

RECURSIVE SeqsUpTo(_, _)
SeqsUpTo(S, n) ==
    IF n = 0 THEN { <<>> }
    ELSE LET shorter == SeqsUpTo(S, n - 1)
         IN shorter \cup { Append(s, x) : s \in shorter, x \in S }

\* what one read_data_packet_extended call returns: (n, packets)
BatchSet == { [n |-> k, packets |-> ps] : k \in 0..MaxPkts, ps \in SeqsUpTo(PacketSet, MaxPkts) }

\* the batch a driver delivers in the session-level specification, whose
\* properties do not depend on what the packets hold
SessionBatches ==
    { [n |-> 2, packets |-> << <<0, 9, 100, 5, 12>>, <<1, 8, 101, 6, 13>> >>] }

\* the generator objects a caller holds at one time
Gens == {"g1", "g2"}

\* connect() called without a port
NoPort == [kind |-> "None", device |-> "-"]

\* the port argument of connect(): None, a str, or a port-info object
PortArgs ==
    { NoPort }
    \cup { [kind |-> "Str", device |-> p] : p \in PathSet }
    \cup { [kind |-> "PortInfo", device |-> p] : p \in PathSet }

\* the port list_ports.comports() lists
ListedPorts == { "/dev/rfcomm0" }

\* what the user types at the prompt: the index of a listed port, or not;
\* nothing is asked when a port is given
Choices(port) == IF port.kind = "None" THEN ListedPorts \cup { "invalid" } ELSE { "-" }

VARIABLES
    current_state,  \* self._device.current_state
    lastOp,         \* the operation that ran last
    lastGen,        \* the generator it ran on, "-" for the session's methods
    lastPort,       \* its port argument when it is connect()
    ret,            \* what it returned, or the exception it raised
    calls,          \* driver calls the last operation made, with results
    enumerated,     \* the last operation consulted list_ports / input()
    connected,      \* outcome of the latest connect()
    gen,            \* position of each stream() generator
    genCallState,   \* current_state when its stream() was called
    genTrace,       \* its driver calls and yields, in order
    delivered,      \* batches the driver returned to it
    yielded         \* items it yielded

vars == << current_state, lastOp, lastGen, lastPort, ret, calls, enumerated, connected,
           gen, genCallState, genTrace, delivered, yielded >>

genVars == << gen, genCallState, genTrace, delivered, yielded >>

Call(fn, arg, ok) == [fn |-> fn, arg |-> arg, ok |-> ok]

\* ---- the driver, Shimmer3 ----
Shimmer3_connect(st, ok) == IF ok THEN BT_CONNECTED ELSE st
Shimmer3_start_bt_streaming(st) == BT_STREAMING
Shimmer3_disconnect(st) == BT_IDLE

Init ==
    /\ current_state = BT_IDLE
    /\ lastOp = "init"
    /\ lastGen = "-"
    /\ lastPort = NoPort
    /\ ret = "None"
    /\ calls = <<>>
    /\ enumerated = FALSE
    /\ connected = "none"
    /\ gen = [g \in Gens |-> "none"]
    /\ genCallState = [g \in Gens |-> BT_IDLE]
    /\ genTrace = [g \in Gens |-> <<>>]
    /\ delivered = [g \in Gens |-> <<>>]
    /\ yielded = [g \in Gens |-> <<>>]

\* ---- connect ----
\* lines 56-65: the chosen port, or the exception of the lookup
chosen_port(port, choice) ==
    IF port.kind = "None"
    THEN IF choice \in ListedPorts
         THEN [kind |-> "PortInfo", device |-> choice]
         ELSE [kind |-> "KeyError", device |-> "-"]
    ELSE port

\* a connect() that keeps configuring after a failed step
connect_device_no_short_circuit(dev, st, open_ok, rate_ok, sensors_ok, mu_ok) ==
    LET c0 == << Call("connect", dev, open_ok) >>
        c3 == c0 \o << Call("set_sampling_rate", "sampling_rate", rate_ok),
                       Call("set_enabled_sensors", "GSR,INT_EXP_ADC_CH13", sensors_ok),
                       Call("set_active_gsr_mu", "GSR_SKIN_CONDUCTANCE", mu_ok) >>
        c4 == Append(c3, Call("print_object_properties", "-", TRUE))
        st1 == Shimmer3_connect(st, open_ok)
    IN  IF open_ok
        THEN IF rate_ok /\ sensors_ok /\ mu_ok
             THEN [ret |-> "True", calls |-> c4, state |-> st1]
             ELSE [ret |-> "False", calls |-> c3, state |-> st1]
        ELSE [ret |-> "False", calls |-> c0, state |-> st1]

\* a connect() that undoes the open when a configuration step fails
connect_device_rollback(dev, st, open_ok, rate_ok, sensors_ok, mu_ok) ==
    LET c0 == << Call("connect", dev, open_ok) >>
        c1 == Append(c0, Call("set_sampling_rate", "sampling_rate", rate_ok))
        c2 == Append(c1, Call("set_enabled_sensors", "GSR,INT_EXP_ADC_CH13", sensors_ok))
        c3 == Append(c2, Call("set_active_gsr_mu", "GSR_SKIN_CONDUCTANCE", mu_ok))
        c4 == Append(c3, Call("print_object_properties", "-", TRUE))
        st1 == Shimmer3_connect(st, open_ok)
        undo(c) == [ret |-> "False",
                    calls |-> Append(c, Call("disconnect", "reset_obj_to_init", TRUE)),
                    state |-> Shimmer3_disconnect(st1)]
    IN  IF open_ok
        THEN IF ~rate_ok THEN undo(c1)
             ELSE IF ~sensors_ok THEN undo(c2)
             ELSE IF ~mu_ok THEN undo(c3)
             ELSE [ret |-> "True", calls |-> c4, state |-> st1]
        ELSE [ret |-> "False", calls |-> c0, state |-> st1]

\* lines 70-84: the driver calls and the result, given the driver's answers
connect_device(dev, st, open_ok, rate_ok, sensors_ok, mu_ok) ==
    LET c0 == << Call("connect", dev, open_ok) >>
        c1 == Append(c0, Call("set_sampling_rate", "sampling_rate", rate_ok))
        c2 == Append(c1, Call("set_enabled_sensors", "GSR,INT_EXP_ADC_CH13", sensors_ok))
        c3 == Append(c2, Call("set_active_gsr_mu", "GSR_SKIN_CONDUCTANCE", mu_ok))
        c4 == Append(c3, Call("print_object_properties", "-", TRUE))
        st1 == Shimmer3_connect(st, open_ok)
    IN  IF open_ok
        THEN IF ~rate_ok THEN [ret |-> "False", calls |-> c1, state |-> st1]
             ELSE IF ~sensors_ok THEN [ret |-> "False", calls |-> c2, state |-> st1]
             ELSE IF ~mu_ok THEN [ret |-> "False", calls |-> c3, state |-> st1]
             ELSE [ret |-> "True", calls |-> c4, state |-> st1]
        ELSE [ret |-> "False", calls |-> c0, state |-> st1]

\* lines 56-84; line 67 reads chosen_port.device, which a str does not have
connect_result(port, choice, st, open_ok, rate_ok, sensors_ok, mu_ok) ==
    LET cp == chosen_port(port, choice)
    IN  IF cp.kind = "KeyError"
        THEN [ret |-> "KeyError", calls |-> <<>>, state |-> st]
        ELSE IF cp.kind = "Str"
        THEN [ret |-> "AttributeError", calls |-> <<>>, state |-> st]
        ELSE connect_device(cp.device, st, open_ok, rate_ok, sensors_ok, mu_ok)

\* the outcome of a connect() as later operations can tell it
connect_outcome(r) ==
    IF r.ret = "True" THEN "ok"
    ELSE IF r.ret # "False" THEN "raised"
    ELSE IF r.calls[1].ok THEN "config_failed"
    ELSE "open_failed"

\* the driver's answers to open and the three configuration calls; it is
\* asked nothing when the port lookup raises
Answers(port, choice) ==
    IF chosen_port(port, choice).kind = "PortInfo"
    THEN BOOLEAN \X BOOLEAN \X BOOLEAN \X BOOLEAN
    ELSE { << FALSE, FALSE, FALSE, FALSE >> }

connect ==
    \E port \in PortArgs :
      \E choice \in Choices(port) :
        \E a \in Answers(port, choice) :
          LET r == connect_result(port, choice, current_state, a[1], a[2], a[3], a[4])
          IN  /\ lastOp' = "connect"
              /\ lastGen' = "-"
              /\ lastPort' = port
              /\ ret' = r.ret
              /\ calls' = r.calls
              /\ enumerated' = (port.kind = "None")
              /\ current_state' = r.state
              /\ connected' = connect_outcome(r)
              /\ UNCHANGED genVars

\* ---- disconnect ----
\* a disconnect() whose guard is the other way round
disconnect_result_when_connected(st) ==
    IF st = BT_CONNECTED
    THEN [ret |-> "True",
          calls |-> << Call("disconnect", "reset_obj_to_init", TRUE) >>,
          state |-> Shimmer3_disconnect(st)]
    ELSE [ret |-> "False", calls |-> <<>>, state |-> st]

\* a disconnect() without a guard
disconnect_result_always(st) ==
    [ret |-> "True",
     calls |-> << Call("disconnect", "reset_obj_to_init", TRUE) >>,
     state |-> Shimmer3_disconnect(st)]

\* lines 92-96
disconnect_result(st) ==
    IF ~(st = BT_CONNECTED)
    THEN [ret |-> "True",
          calls |-> << Call("disconnect", "reset_obj_to_init", TRUE) >>,
          state |-> Shimmer3_disconnect(st)]
    ELSE [ret |-> "False", calls |-> <<>>, state |-> st]

disconnect ==
    LET r == disconnect_result(current_state)
    IN  /\ lastOp' = "disconnect"
        /\ lastGen' = "-"
        /\ ret' = r.ret
        /\ calls' = r.calls
        /\ enumerated' = FALSE
        /\ current_state' = r.state
        /\ lastPort' = NoPort
        /\ UNCHANGED connected
        /\ UNCHANGED genVars

\* ---- stream ----
\* a stream() that is an ordinary function: it checks and starts at the call
stream_eager(g) ==
    /\ lastOp' = "stream"
    /\ lastGen' = g
    /\ calls' = <<>>
    /\ enumerated' = FALSE
    /\ genCallState' = [genCallState EXCEPT ![g] = current_state]
    /\ delivered' = [delivered EXCEPT ![g] = <<>>]
    /\ yielded' = [yielded EXCEPT ![g] = <<>>]
    /\ IF current_state = BT_CONNECTED
       THEN /\ ret' = "generator"
            /\ gen' = [gen EXCEPT ![g] = "suspended"]
            /\ genTrace' = [genTrace EXCEPT ![g] = << "start" >>]
            /\ current_state' = Shimmer3_start_bt_streaming(current_state)
       ELSE /\ ret' = "RuntimeError"
            /\ gen' = [gen EXCEPT ![g] = "finished"]
            /\ genTrace' = [genTrace EXCEPT ![g] = << "raise" >>]
            /\ current_state' = current_state
    /\ lastPort' = NoPort
    /\ UNCHANGED connected

\* line 18: calling stream() creates the generator and runs none of its body
stream(g) ==
    /\ lastOp' = "stream"
    /\ lastGen' = g
    /\ ret' = "generator"
    /\ calls' = <<>>
    /\ enumerated' = FALSE
    /\ gen' = [gen EXCEPT ![g] = "created"]
    /\ genCallState' = [genCallState EXCEPT ![g] = current_state]
    /\ genTrace' = [genTrace EXCEPT ![g] = <<>>]
    /\ delivered' = [delivered EXCEPT ![g] = <<>>]
    /\ yielded' = [yielded EXCEPT ![g] = <<>>]
    /\ lastPort' = NoPort
    /\ UNCHANGED << current_state, connected >>

\* line 34
empty_reads == [timestamp |-> <<>>, PPG |-> <<>>, EDA |-> <<>>]

\* lines 35-41: the loop over the packets of one batch
RECURSIVE extract(_, _)
extract(packets, reads) ==
    IF packets = <<>> THEN reads
    ELSE LET pkt == Head(packets)
         IN extract(Tail(packets),
                    [timestamp |-> Append(reads.timestamp, pkt[3]),
                     PPG |-> Append(reads.PPG, pkt[4]),
                     EDA |-> Append(reads.EDA, pkt[5])])

\* the lists created once, before the loop, instead of once per batch
batch_item_carry(b, prev) == [n |-> b.n, reads |-> extract(b.packets, prev.reads)]

\* lines 33-43: the item yielded for one batch; prev is the item before it
batch_item(b, prev) == [n |-> b.n, reads |-> extract(b.packets, empty_reads)]

\* an admission check that lets a streaming driver through
admitted_unless_idle(st) == st # BT_IDLE

\* lines 27-31: the admission check of the first pull
admitted(st) == st = BT_CONNECTED

\* start_bt_streaming placed inside the loop
pull_events_restart(first, read_ok) ==
    << "start", "read" >> \o (IF read_ok THEN << "yield" >> ELSE << "raise" >>)

\* lines 27-43: what one pull that reads adds to the generator's trace
pull_events(first, read_ok) ==
    (IF first THEN << "start" >> ELSE <<>>)
    \o << "read" >> \o (IF read_ok THEN << "yield" >> ELSE << "raise" >>)

\* lines 28, 32-43: one read and, when the driver delivers, one yield
stream_read(g, first, b, read_ok) ==
    LET st1 == IF first THEN Shimmer3_start_bt_streaming(current_state) ELSE current_state
        prev == IF yielded[g] = <<>> THEN [n |-> 0, reads |-> empty_reads]
                ELSE yielded[g][Len(yielded[g])]
    IN  /\ current_state' = st1
        /\ genTrace' = [genTrace EXCEPT ![g] = @ \o pull_events(first, read_ok)]
        /\ calls' = (IF first THEN << Call("start_bt_streaming", "-", TRUE) >> ELSE <<>>)
                    \o << Call("read_data_packet_extended", "calibrated", read_ok) >>
        /\ IF read_ok
           THEN /\ delivered' = [delivered EXCEPT ![g] = Append(@, b)]
                /\ yielded' = [yielded EXCEPT ![g] = Append(@, batch_item(b, prev))]
                /\ gen' = [gen EXCEPT ![g] = "suspended"]
                /\ ret' = "item"
           ELSE /\ UNCHANGED << delivered, yielded >>
                /\ gen' = [gen EXCEPT ![g] = "finished"]
                /\ ret' = "DriverError"

RECURSIVE TotalLen(_, _)
TotalLen(f, S) ==
    IF S = {} THEN 0
    ELSE LET g == CHOOSE x \in S : TRUE IN Len(f[g]) + TotalLen(f, S \ {g})

\* the driver has batches left to deliver
CanDeliver == TotalLen(delivered, Gens) < MaxBatches

\* next() on a generator: lines 27-43
stream_next(g, Batches) ==
    /\ gen[g] # "none"
    /\ lastOp' = "next"
    /\ lastGen' = g
    /\ enumerated' = FALSE
    /\ lastPort' = NoPort
    /\ UNCHANGED << connected, genCallState >>
    /\ \/ /\ gen[g] = "created"
          /\ IF admitted(current_state)
             THEN /\ CanDeliver
                  /\ \E b \in Batches, read_ok \in BOOLEAN : stream_read(g, TRUE, b, read_ok)
             ELSE /\ gen' = [gen EXCEPT ![g] = "finished"]
                  /\ ret' = "RuntimeError"
                  /\ calls' = <<>>
                  /\ genTrace' = [genTrace EXCEPT ![g] = << "raise" >>]
                  /\ UNCHANGED << current_state, delivered, yielded >>
       \/ /\ gen[g] = "suspended"
          /\ CanDeliver
          /\ \E b \in Batches, read_ok \in BOOLEAN : stream_read(g, FALSE, b, read_ok)
       \/ /\ gen[g] = "finished"
          /\ ret' = "StopIteration"
          /\ calls' = <<>>
          /\ UNCHANGED << current_state, gen, genTrace, delivered, yielded >>

Next ==
    \/ connect
    \/ disconnect
    \/ \E g \in Gens : stream(g)
    \/ \E g \in Gens : stream_next(g, SessionBatches)

Spec == Init /\ [][Next]_vars

\* ---- the generators alone, over every batch the driver can deliver ----
\* stream() has just been called once, in any state a session can be in
InitStream ==
    /\ current_state \in States
    /\ lastOp = "stream"
    /\ lastGen = "g1"
    /\ connected = (IF current_state = BT_IDLE THEN "none" ELSE "ok")
    /\ lastPort = NoPort
    /\ ret = "generator"
    /\ calls = <<>>
    /\ enumerated = FALSE
    /\ gen = [g \in Gens |-> IF g = "g1" THEN "created" ELSE "none"]
    /\ genCallState = [g \in Gens |-> IF g = "g1" THEN current_state ELSE BT_IDLE]
    /\ genTrace = [g \in Gens |-> <<>>]
    /\ delivered = [g \in Gens |-> <<>>]
    /\ yielded = [g \in Gens |-> <<>>]

NextStream ==
    \/ \E g \in Gens : stream(g)
    \/ \E g \in Gens : stream_next(g, BatchSet)

SpecStream == InitStream /\ [][NextStream]_vars

\* ---- helpers of the properties ----
IsBool(r) == r \in {"True", "False"}

\* the driver calls connect() makes, in the order of lines 70-81
ConnectOrder ==
    << "connect", "set_sampling_rate", "set_enabled_sensors", "set_active_gsr_mu",
       "print_object_properties" >>

\* open and the three configuration calls were made and all succeeded
AllSucceeded(cs) == Len(cs) >= 4 /\ \A i \in 1..4 : cs[i].ok

HasCall(cs, fn) == \E i \in 1..Len(cs) : cs[i].fn = fn

Count(t, e) == Cardinality({ i \in 1..Len(t) : t[i] = e })

\* C1: a connect() called with a port returns True exactly when the open and
\* the three configuration calls all succeed, returns False in every other
\* case, and never raises.
C1_ConnectResult ==
    (lastOp = "connect" /\ lastPort.kind # "None")
        => /\ IsBool(ret)
           /\ (ret = "True") <=> AllSucceeded(calls)

\* C2: connect(port) with port a device path string attempts the driver's
\* open on exactly that path, consults neither the port listing nor the
\* prompt, and completes with a boolean.
C2_OpenOnGivenPath ==
    (lastOp = "connect" /\ lastPort.kind = "Str")
        => /\ ~enumerated
           /\ Len(calls) >= 1
           /\ calls[1].fn = "connect"
           /\ calls[1].arg = lastPort.device
           /\ IsBool(ret)

\* C3: the first pull of a stream() generator made while the driver is in any
\* state but Connected raises "not connected": nothing is yielded, neither
\* start_bt_streaming nor a packet read is called, no connect is attempted and
\* the driver state stays as it was.
C3_NotConnectedFails ==
    [][ (lastOp' = "next" /\ gen[lastGen'] = "created" /\ current_state # BT_CONNECTED)
            => /\ ret' = "RuntimeError"
               /\ gen'[lastGen'] = "finished"
               /\ calls' = <<>>
               /\ genTrace'[lastGen'] = << "raise" >>
               /\ yielded' = yielded
               /\ delivered' = delivered
               /\ connected' = connected
               /\ current_state' = current_state ]_vars

C3_Witness ==
    /\ lastOp = "next"
    /\ ret = "RuntimeError"
    /\ current_state = BT_STREAMING
    /\ yielded[lastGen] = <<>>

\* C4: the k-th item a generator yielded is the k-th batch the driver returned
\* to it: the driver's count, and fields 2, 3, 4 of its packets, one entry per
\* packet, in arrival order, with nothing from any other batch.
C4_BatchesPreserved ==
    \A g \in Gens :
        /\ Len(yielded[g]) = Len(delivered[g])
        /\ \A k \in 1..Len(yielded[g]) :
            LET item == yielded[g][k]
                b == delivered[g][k]
            IN  /\ item.n = b.n
                /\ Len(item.reads.timestamp) = Len(b.packets)
                /\ Len(item.reads.PPG) = Len(b.packets)
                /\ Len(item.reads.EDA) = Len(b.packets)
                /\ \A i \in 1..Len(b.packets) :
                    /\ item.reads.timestamp[i] = b.packets[i][3]
                    /\ item.reads.PPG[i] = b.packets[i][4]
                    /\ item.reads.EDA[i] = b.packets[i][5]

C4_Witness ==
    \E g \in Gens :
        /\ Len(yielded[g]) = 2
        /\ yielded[g][1].reads.timestamp = << 100, 101 >>
        /\ yielded[g][2].reads.timestamp = << 101 >>
        /\ yielded[g][2].reads.PPG = << 6 >>
        /\ yielded[g][2].reads.EDA = << 13 >>

\* C5: disconnect() on a Connected driver returns False, calls nothing on the
\* driver and leaves its state; in any other state it returns True and calls
\* the driver's disconnect with reset exactly once.
C5_DisconnectGuard ==
    [][ lastOp' = "disconnect"
            => IF current_state = BT_CONNECTED
               THEN /\ ret' = "False"
                    /\ calls' = <<>>
                    /\ current_state' = current_state
               ELSE /\ ret' = "True"
                    /\ calls' = << Call("disconnect", "reset_obj_to_init", TRUE) >> ]_vars

C5_Witness ==
    /\ lastOp = "disconnect"
    /\ ret = "True"
    /\ Len(calls) = 1
    /\ \E g \in Gens : gen[g] = "suspended"

\* C6: after connect() the driver calls it made are a prefix of open,
\* set-sampling-rate, enable-channels, set-measurement-unit (then the property
\* print), each at most once; only the last call made can have failed, a call
\* that succeeded is followed by the next one, and the driver's disconnect is
\* never called.
C6_ConfigOrder ==
    lastOp = "connect"
        => /\ Len(calls) <= Len(ConnectOrder)
           /\ \A i \in 1..Len(calls) : calls[i].fn = ConnectOrder[i]
           /\ \A i \in 1..Len(calls) : ~calls[i].ok => i = Len(calls)
           /\ (calls # <<>> /\ calls[Len(calls)].ok) => Len(calls) = Len(ConnectOrder)
           /\ ~HasCall(calls, "disconnect")
           /\ (calls # <<>> /\ ~calls[1].ok) => Len(calls) = 1

C6_Witness ==
    /\ lastOp = "connect"
    /\ Len(calls) = 3
    /\ calls[2].ok
    /\ ~calls[3].ok
    /\ current_state = BT_CONNECTED

\* the trace of one generator: start_bt_streaming at most once and first,
\* every yield right after a read, every read right after the start or a yield
TraceOrdered(t) ==
    /\ Count(t, "start") <= 1
    /\ \A i \in 1..Len(t) : t[i] = "start" => i = 1
    /\ \A i \in 1..Len(t) : t[i] = "yield" => (i > 1 /\ t[i - 1] = "read")
    /\ \A i \in 1..Len(t) : t[i] = "read" => (i > 1 /\ t[i - 1] \in {"start", "yield"})
    /\ Count(t, "read") > 0 => Count(t, "start") = 1

\* C7: a generator admitted while Connected calls start_bt_streaming exactly
\* once, before its first read; every yield follows exactly one read made
\* since the previous yield; and a pull on a generator that has yielded always
\* makes another read, the generator staying live unless the driver raises.
C7_OnePullPerBatch ==
    [][ lastOp' = "next"
            => LET t == genTrace[lastGen']
                   u == genTrace'[lastGen']
               IN  /\ TraceOrdered(u)
                   /\ Count(u, "yield") = Len(yielded'[lastGen'])
                   /\ \A h \in Gens \ {lastGen'} : genTrace'[h] = genTrace[h]
                   /\ gen[lastGen'] = "suspended"
                        => /\ Len(u) = Len(t) + 2
                           /\ u[Len(t) + 1] = "read"
                           /\ Count(u, "read") = Count(t, "read") + 1
                           /\ (ret' = "item" => gen'[lastGen'] = "suspended")
                           /\ ret' \in {"item", "DriverError"} ]_vars

C7_Witness ==
    \E g \in Gens :
        /\ genCallState[g] = BT_CONNECTED
        /\ genTrace[g] = << "start", "read", "yield", "read", "yield" >>

\* C8: while the driver is Connected no disconnect() releases it: each one
\* returns False and leaves the driver Connected; a disconnect() that reaches
\* the driver starts from a state other than Connected.
C8_ConnectedNotReleased ==
    [][ lastOp' = "disconnect"
            => /\ current_state = BT_CONNECTED
                    => (current_state' = BT_CONNECTED /\ ret' = "False")
               /\ HasCall(calls', "disconnect") => current_state # BT_CONNECTED
               /\ current_state' = BT_IDLE => current_state # BT_CONNECTED ]_vars

C8_Witness ==
    /\ lastOp = "disconnect"
    /\ ret = "False"
    /\ current_state = BT_CONNECTED
    /\ \A g \in Gens : gen[g] = "none"

\* C9: a connect() that returns False after a successful open leaves the
\* driver Connected, and the first pull of a generator is admitted exactly
\* when the driver is Connected, whatever connect() returned.
C9_AdmissionByStateOnly ==
    [][ /\ (lastOp' = "connect" /\ connected' = "config_failed")
            => (ret' = "False" /\ current_state' = BT_CONNECTED)
        /\ (lastOp' = "next" /\ gen[lastGen'] = "created")
            => IF current_state = BT_CONNECTED
               THEN /\ genTrace'[lastGen'][1] = "start"
                    /\ current_state' = BT_STREAMING
               ELSE ret' = "RuntimeError" ]_vars

C9_Witness ==
    /\ connected = "config_failed"
    /\ lastOp = "next"
    /\ ret = "item"
    /\ genTrace[lastGen] = << "start", "read", "yield" >>

\* C10: calling stream() checks nothing and touches nothing on the driver; the
\* check and the start happen at the first pull and go by the driver state at
\* that pull, not by the state at the call.
C10_LazyCheck ==
    [][ /\ lastOp' = "stream"
            => /\ ret' = "generator"
               /\ calls' = <<>>
               /\ current_state' = current_state
               /\ gen'[lastGen'] = "created"
               /\ genTrace'[lastGen'] = <<>>
        /\ (lastOp' = "next" /\ gen[lastGen'] = "created")
            => /\ (ret' = "RuntimeError") <=> (current_state # BT_CONNECTED)
               /\ (ret' # "RuntimeError") => HasCall(calls', "start_bt_streaming") ]_vars

C10_Witness ==
    \E g \in Gens, h \in Gens :
        /\ genCallState[g] = BT_IDLE
        /\ Len(yielded[g]) >= 1
        /\ genCallState[h] = BT_CONNECTED
        /\ genTrace[h] = << "raise" >>
====
